---- MODULE Spec2Model ----
(***************************************************************************)
(* Model of types/src/access_rights.rs: the AccessRights bit flags, their  *)
(* one-byte bytesrepr codec, and ContextAccessRights (the per-context      *)
(* table URefAddr -> AccessRights with new / extend / context_key /        *)
(* has_access_rights_to_uref).                                             *)
(*                                                                         *)
(* Three specifications share the variables:                               *)
(*   Spec       a ContextAccessRights after new(), under any sequence of   *)
(*              extend / has_access_rights_to_uref / context_key calls,    *)
(*              each call recorded with its arguments and return value;    *)
(*   SpecNew    one call of new() on an arbitrary token sequence;          *)
(*   SpecCodec  to_bytes / from_bytes on arbitrary masks and byte strings. *)
(***************************************************************************)
EXTENDS Naturals, Sequences, FiniteSets

VARIABLES
    context_key,    \* ContextAccessRights.context_key
    access_rights,  \* ContextAccessRights.access_rights : BTreeMap<URefAddr, AccessRights>
    granted,        \* history: per address, the flags carried by the URefs passed so far
    prev,           \* the object as it was when the last call was entered
    last,           \* the last call: its name, argument and return value
    pc,             \* position of the caller
    urefs,          \* the URef sequence passed to the recorded call
    rights,         \* codec: the AccessRights value given to to_bytes
    bytes,          \* codec: the byte string given to from_bytes
    encoded,        \* codec: result of to_bytes
    decoded         \* codec: result of from_bytes

vars == <<context_key, access_rights, granted, prev, last, pc, urefs,
          rights, bytes, encoded, decoded>>

ctxVars == <<context_key, access_rights, granted, prev, last, urefs>>

codecVars == <<rights, bytes, encoded, decoded>>

----------------------------------------------------------------------------
(* Bounds of the model.                                                    *)

\* longest URef slice passed to one extend call (and to new in Spec)
MaxBatch == 2

\* longest URef sequence passed to new in SpecNew
MaxNewLen == 3

\* longest tail following the first byte of a from_bytes input
MaxTail == 1

\* URef addresses ([u8; 32] in the program, opaque here)
Addrs == {"A", "B"}

\* the context key of the object followed in Spec
KEY == "K1"

\* context keys (Key in the program, opaque here)
Keys == {KEY, "K2"}

\* byte values used after the first byte of a from_bytes input
TailBytes == {0, 7, 8, 255}

----------------------------------------------------------------------------
(* u8 arithmetic behind the bitflags operators.                            *)

U8 == 0..255

RECURSIVE BitAnd(_, _)
BitAnd(x, y) ==
    IF x = 0 \/ y = 0 THEN 0
    ELSE (x % 2) * (y % 2) + 2 * BitAnd(x \div 2, y \div 2)

RECURSIVE BitOr(_, _)
BitOr(x, y) ==
    IF x = 0 THEN y
    ELSE IF y = 0 THEN x
    ELSE (IF x % 2 = 1 \/ y % 2 = 1 THEN 1 ELSE 0) + 2 * BitOr(x \div 2, y \div 2)

BitNot(x) == 255 - x

----------------------------------------------------------------------------
(* AccessRights                                                            *)

ACCESS_RIGHTS_SERIALIZED_LENGTH == 1

NONE == 0

READ == 1

WRITE == 2

ADD == 4

READ_ADD == BitOr(READ, ADD)

READ_WRITE == BitOr(READ, WRITE)

ADD_WRITE == BitOr(ADD, WRITE)

READ_ADD_WRITE == BitOr(BitOr(READ, ADD), WRITE)

\* AccessRights::all().bits : the union of every declared flag
AllBits ==
    BitOr(NONE, BitOr(READ, BitOr(WRITE, BitOr(ADD, BitOr(READ_ADD,
        BitOr(READ_WRITE, BitOr(ADD_WRITE, READ_ADD_WRITE)))))))

\* the values an AccessRights can hold
AccessRightsValues == {b \in U8 : BitAnd(b, BitNot(AllBits)) = 0}

Some(v) == [some |-> TRUE, value |-> v]

None == [some |-> FALSE]

Ok(v) == [ok |-> TRUE, value |-> v]

Err(e) == [ok |-> FALSE, err |-> e]

from_bits(b) == IF BitAnd(b, BitNot(AllBits)) = 0 THEN Some(b) ELSE None

\* variant: the flags of exactly one operand (a toggle, not a union)
union_toggle(self, other) == BitOr(self, other) - BitAnd(self, other)

union(self, other) == BitOr(self, other)

contains(self, other) == BitAnd(self, other) = other

is_readable(self) == BitAnd(self, READ) = READ

is_writeable(self) == BitAnd(self, WRITE) = WRITE

is_addable(self) == BitAnd(self, ADD) = ADD

\* the named flags a mask carries, read through the three predicates
FlagsOf(m) ==
    {f \in {"READ", "WRITE", "ADD"} :
        \/ f = "READ" /\ is_readable(m)
        \/ f = "WRITE" /\ is_writeable(m)
        \/ f = "ADD" /\ is_addable(m)}

----------------------------------------------------------------------------
(* bytesrepr codec                                                         *)

\* u8::to_bytes : the byte itself
u8_to_bytes(b) == Ok(<<b>>)

\* u8::from_bytes : splits off the first byte, fails on empty input
u8_from_bytes(bs) ==
    IF bs = <<>> THEN Err("InsufficientData") ELSE Ok(<<Head(bs), Tail(bs)>>)

\* variant: only the READ and WRITE bits are written
to_bytes_low_bits(self) == u8_to_bytes(BitAnd(self, READ_WRITE))

to_bytes(self) == u8_to_bytes(self)

serialized_length(self) == ACCESS_RIGHTS_SERIALIZED_LENGTH

\* variant: unknown bits are dropped (from_bits_truncate) instead of rejected
from_bytes_truncate(bs) ==
    LET r == u8_from_bytes(bs) IN
    IF ~r.ok THEN r
    ELSE Ok(<<BitAnd(r.value[1], AllBits), r.value[2]>>)

from_bytes(bs) ==
    LET r == u8_from_bytes(bs) IN
    IF ~r.ok THEN r
    ELSE LET id == r.value[1]
             rem == r.value[2]
             f == from_bits(id)
         IN IF f.some THEN Ok(<<f.value, rem>>) ELSE Err("Formatting")

----------------------------------------------------------------------------
(* URef and ContextAccessRights                                            *)

URef(a, r) == [addr |-> a, access_rights |-> r]

URefs == {URef(a, r) : a \in Addrs, r \in AccessRightsValues}

SeqsUpTo(S, n) == UNION {[1..k -> S] : k \in 0..n}

Batches == SeqsUpTo(URefs, MaxBatch)

EmptyMap == [a \in {} |-> NONE]

\* variant: an occupied entry is overwritten by the incoming rights
entry_step_overwrite(ar, uref) ==
    [a \in DOMAIN ar \cup {uref.addr} |->
        IF a = uref.addr THEN uref.access_rights ELSE ar[a]]

\* variant: an occupied entry is left as it is (or_insert)
entry_step_keep_first(ar, uref) ==
    IF uref.addr \in DOMAIN ar
    THEN ar
    ELSE [a \in DOMAIN ar \cup {uref.addr} |->
            IF a = uref.addr THEN uref.access_rights ELSE ar[a]]

\* variant: an occupied entry keeps only the rights both sides carry
entry_step_intersect(ar, uref) ==
    IF uref.addr \in DOMAIN ar
    THEN [ar EXCEPT ![uref.addr] = BitAnd(ar[uref.addr], uref.access_rights)]
    ELSE [a \in DOMAIN ar \cup {uref.addr} |->
            IF a = uref.addr THEN uref.access_rights ELSE ar[a]]

\* one iteration of the loop of do_extend
entry_step(ar, uref) ==
    IF uref.addr \in DOMAIN ar
    THEN [ar EXCEPT ![uref.addr] = union(ar[uref.addr], uref.access_rights)]
    ELSE [a \in DOMAIN ar \cup {uref.addr} |->
            IF a = uref.addr THEN uref.access_rights ELSE ar[a]]

\* variant: URefs without rights are skipped
RECURSIVE do_extend_skip_none(_, _)
do_extend_skip_none(ar, uref_iter) ==
    IF uref_iter = <<>> THEN ar
    ELSE IF Head(uref_iter).access_rights = NONE
    THEN do_extend_skip_none(ar, Tail(uref_iter))
    ELSE do_extend_skip_none(entry_step(ar, Head(uref_iter)), Tail(uref_iter))

RECURSIVE do_extend(_, _)
do_extend(ar, uref_iter) ==
    IF uref_iter = <<>> THEN ar
    ELSE do_extend(entry_step(ar, Head(uref_iter)), Tail(uref_iter))

\* variant: the table is rebuilt from the given URefs
extend_replace(ar, us) == do_extend(EmptyMap, us)

extend(ar, us) == do_extend(ar, us)

new(key, uref_iter) ==
    [context_key |-> key, access_rights |-> do_extend(EmptyMap, uref_iter)]

\* variant: an unknown address is taken to hold NONE
has_access_unknown_as_none(ar, uref) ==
    IF uref.addr \in DOMAIN ar
    THEN contains(ar[uref.addr], uref.access_rights)
    ELSE contains(NONE, uref.access_rights)

\* variant: the containment test is taken the wrong way round
has_access_reversed(ar, uref) ==
    IF uref.addr \in DOMAIN ar
    THEN contains(uref.access_rights, ar[uref.addr])
    ELSE FALSE

has_access_rights_to_uref(ar, uref) ==
    IF uref.addr \in DOMAIN ar
    THEN contains(ar[uref.addr], uref.access_rights)
    ELSE FALSE

\* history of the tokens passed to do_extend, kept per address as the set
\* of flags they carried
RECURSIVE Grant(_, _)
Grant(g, us) ==
    IF us = <<>> THEN g
    ELSE LET u == Head(us)
             g1 == [a \in DOMAIN g \cup {u.addr} |->
                      (IF a \in DOMAIN g THEN g[a] ELSE {})
                      \cup (IF a = u.addr THEN FlagsOf(u.access_rights) ELSE {})]
         IN Grant(g1, Tail(us))

\* the addresses of a URef sequence
AddrsOf(us) == {us[i].addr : i \in 1..Len(us)}

\* the flags carried for address a by the URefs of a sequence
FlagsFor(us, a) ==
    UNION {FlagsOf(us[i].access_rights) : i \in {j \in 1..Len(us) : us[j].addr = a}}

\* the flags a table holds for address a (none when a has no entry)
Held(ar, a) == IF a \in DOMAIN ar THEN FlagsOf(ar[a]) ELSE {}

Perms(n) == {p \in [1..n -> 1..n] : \A i, j \in 1..n : p[i] = p[j] => i = j}

Permute(us, p) == [i \in 1..Len(us) |-> us[p[i]]]

Self == [context_key |-> context_key, access_rights |-> access_rights]

NoCall == [op |-> "none"]

CodecIdle ==
    /\ rights = NONE
    /\ bytes = <<>>
    /\ encoded = None
    /\ decoded = None

----------------------------------------------------------------------------
(* Spec: the life of one ContextAccessRights.  The caller is either        *)
(* "ready" to make a call or has a call "returned" to it; prev, last and   *)
(* urefs describe the call that returned.                                  *)

Init ==
    /\ \E us \in Batches :
         /\ context_key = new(KEY, us).context_key
         /\ access_rights = new(KEY, us).access_rights
         /\ granted = Grant(EmptyMap, us)
         /\ prev = [context_key |-> KEY, access_rights |-> EmptyMap]
         /\ urefs = us
    /\ last = [op |-> "new"]
    /\ pc = "returned"
    /\ CodecIdle

ExtendCall(us, name) ==
    /\ access_rights' = extend(access_rights, us)
    /\ granted' = Grant(granted, us)
    /\ prev' = Self
    /\ last' = [op |-> name]
    /\ urefs' = us
    /\ UNCHANGED context_key

Extend ==
    /\ pc = "ready"
    /\ \E us \in Batches : ExtendCall(us, "extend")
    /\ pc' = "returned"
    /\ UNCHANGED codecVars

\* the caller repeats the extend call that has just returned
ExtendAgain ==
    /\ pc = "returned"
    /\ last.op = "extend"
    /\ ExtendCall(urefs, "extend_again")
    /\ pc' = "returned"
    /\ UNCHANGED codecVars

HasAccessRightsToURef ==
    /\ pc = "ready"
    /\ \E uref \in URefs :
         last' = [op |-> "has_access_rights_to_uref", uref |-> uref,
                  ret |-> has_access_rights_to_uref(access_rights, uref)]
    /\ prev' = Self
    /\ pc' = "returned"
    /\ UNCHANGED <<context_key, access_rights, granted, urefs, codecVars>>

ContextKey ==
    /\ pc = "ready"
    /\ last' = [op |-> "context_key", ret |-> context_key]
    /\ prev' = Self
    /\ pc' = "returned"
    /\ UNCHANGED <<context_key, access_rights, granted, urefs, codecVars>>

\* the caller takes the result and is ready for its next call
Return ==
    /\ pc = "returned"
    /\ pc' = "ready"
    /\ last' = NoCall
    /\ prev' = Self
    /\ urefs' = <<>>
    /\ UNCHANGED <<context_key, access_rights, granted, codecVars>>

Next == Extend \/ ExtendAgain \/ HasAccessRightsToURef \/ ContextKey \/ Return

Spec == Init /\ [][Next]_vars

----------------------------------------------------------------------------
(* SpecNew: one call of ContextAccessRights::new                           *)

InitNew ==
    /\ urefs \in SeqsUpTo(URefs, MaxNewLen)
    /\ context_key = "unset"
    /\ access_rights = EmptyMap
    /\ granted = EmptyMap
    /\ prev = [context_key |-> "unset", access_rights |-> EmptyMap]
    /\ last = NoCall
    /\ pc = "ready"
    /\ CodecIdle

New ==
    /\ pc = "ready"
    /\ \E key \in Keys :
         /\ context_key' = new(key, urefs).context_key
         /\ access_rights' = new(key, urefs).access_rights
    /\ granted' = Grant(EmptyMap, urefs)
    /\ last' = [op |-> "new"]
    /\ pc' = "returned"
    /\ UNCHANGED <<prev, urefs, codecVars>>

NextNew == New

SpecNew == InitNew /\ [][NextNew]_vars

----------------------------------------------------------------------------
(* SpecCodec: AccessRights::to_bytes and AccessRights::from_bytes          *)

ByteStrings ==
    {<<>>} \cup {<<b>> \o t : b \in U8, t \in SeqsUpTo(TailBytes, MaxTail)}

InitCodec ==
    /\ rights \in AccessRightsValues
    /\ bytes \in ByteStrings
    /\ encoded = None
    /\ decoded = None
    /\ pc = "start"
    /\ context_key = "unset"
    /\ access_rights = EmptyMap
    /\ granted = EmptyMap
    /\ prev = [context_key |-> "unset", access_rights |-> EmptyMap]
    /\ last = NoCall
    /\ urefs = <<>>

ToBytes ==
    /\ pc = "start"
    /\ encoded' = to_bytes(rights)
    /\ pc' = "encoded"
    /\ UNCHANGED <<rights, bytes, decoded, ctxVars>>

FromBytes ==
    /\ pc = "start"
    /\ decoded' = from_bytes(bytes)
    /\ pc' = "decoded"
    /\ UNCHANGED <<rights, bytes, encoded, ctxVars>>

\* decode what to_bytes produced, followed by the bytes of `bytes`
FromEncoded ==
    /\ pc = "encoded"
    /\ encoded.ok
    /\ decoded' = from_bytes(encoded.value \o bytes)
    /\ pc' = "roundtrip"
    /\ UNCHANGED <<rights, bytes, encoded, ctxVars>>

NextCodec == ToBytes \/ FromBytes \/ FromEncoded

SpecCodec == InitCodec /\ [][NextCodec]_vars

----------------------------------------------------------------------------
(* Properties of ContextAccessRights (Spec)                                *)

IsHas == pc = "returned" /\ last.op = "has_access_rights_to_uref"

IsExtend == pc = "returned" /\ last.op \in {"extend", "extend_again"}

\* C1: has_access_rights_to_uref(u) returns true exactly when the table holds
\* an entry for u.addr() and every flag of u.access_rights() is set in it;
\* so it is false for an address without entry and for a missing flag.
C1_AuthorizeIffEntryContains ==
    IsHas =>
        last.ret = (/\ last.uref.addr \in DOMAIN access_rights
                    /\ FlagsOf(last.uref.access_rights)
                         \subseteq FlagsOf(access_rights[last.uref.addr]))

C1_Witness ==
    /\ IsHas
    /\ last.ret = TRUE
    /\ last.uref.access_rights = READ
    /\ last.uref.addr \in DOMAIN access_rights
    /\ access_rights[last.uref.addr] = READ_ADD
    /\ DOMAIN access_rights # Addrs

\* C2 (as claimed): has_access_rights_to_uref on (B, NONE) returns true when
\* address B has no entry in the table.
C2_UnknownNoneAuthorized ==
    (/\ IsHas
     /\ last.uref.addr \notin DOMAIN access_rights
     /\ last.uref.access_rights = NONE) => last.ret = TRUE

\* C2 (amended): has_access_rights_to_uref on (B, NONE) returns false when
\* address B has no entry in the table; only an entry, even one holding NONE,
\* satisfies a request for no rights.
C2_UnknownNoneDenied ==
    /\ (/\ IsHas
        /\ last.uref.addr \notin DOMAIN access_rights
        /\ last.uref.access_rights = NONE) => last.ret = FALSE
    /\ (/\ IsHas
        /\ last.uref.addr \in DOMAIN access_rights
        /\ last.uref.access_rights = NONE) => last.ret = TRUE

C2_Witness ==
    /\ IsHas
    /\ last.uref.addr \notin DOMAIN access_rights
    /\ last.uref.access_rights = NONE
    /\ last.ret = FALSE
    /\ \E a \in DOMAIN access_rights : access_rights[a] = READ_ADD

\* C3: after new and any sequence of extend calls the table has exactly the
\* addresses of the URefs passed so far, each with the union of the rights
\* those URefs carried; a URef with NONE still creates the entry.
C3_TableIsUnionOfGranted ==
    /\ DOMAIN access_rights = DOMAIN granted
    /\ \A a \in DOMAIN access_rights :
         /\ access_rights[a] \in AccessRightsValues
         /\ FlagsOf(access_rights[a]) = granted[a]
    /\ (IsExtend \/ (pc = "returned" /\ last.op = "new")) =>
         /\ DOMAIN access_rights = DOMAIN prev.access_rights \cup AddrsOf(urefs)
         /\ \A a \in DOMAIN access_rights :
              FlagsOf(access_rights[a])
                = Held(prev.access_rights, a) \cup FlagsFor(urefs, a)

C3_Witness ==
    /\ pc = "returned"
    /\ last.op = "extend"
    /\ \E a \in DOMAIN prev.access_rights, b \in DOMAIN access_rights :
         /\ prev.access_rights[a] = READ
         /\ access_rights[a] = READ_ADD_WRITE
         /\ b \notin DOMAIN prev.access_rights
         /\ access_rights[b] = NONE

\* C4: across every call an entry of the table stays present and its rights
\* contain the rights it had before; an extend with narrower rights neither
\* overwrites nor shrinks the entry.
C4_ExtensionMonotonic ==
    [][\A a \in DOMAIN access_rights :
         /\ a \in DOMAIN access_rights'
         /\ FlagsOf(access_rights[a]) \subseteq FlagsOf(access_rights'[a])
         /\ contains(access_rights'[a], access_rights[a])]_vars

C4_Witness ==
    /\ pc = "returned"
    /\ last.op = "extend"
    /\ \E i \in 1..Len(urefs) :
         /\ urefs[i].addr \in DOMAIN prev.access_rights
         /\ prev.access_rights[urefs[i].addr] = READ_ADD
         /\ urefs[i].access_rights = READ
         /\ access_rights[urefs[i].addr] = READ_ADD

\* C6: repeating an extend call with the same URefs leaves the object as the
\* first call left it, and an extend whose URefs all carry rights the table
\* already holds for their addresses leaves the table as it was.
C6_ExtendIdempotent ==
    /\ (pc = "returned" /\ last.op = "extend_again") => Self = prev
    /\ (/\ IsExtend
        /\ \A i \in 1..Len(urefs) :
             /\ urefs[i].addr \in DOMAIN prev.access_rights
             /\ FlagsOf(urefs[i].access_rights)
                  \subseteq FlagsOf(prev.access_rights[urefs[i].addr]))
         => access_rights = prev.access_rights

C6_Witness ==
    /\ pc = "returned"
    /\ last.op = "extend_again"
    /\ Len(urefs) = 2
    /\ urefs[1].addr = urefs[2].addr
    /\ urefs[1].access_rights = READ
    /\ urefs[2].access_rights = ADD
    /\ access_rights[urefs[1].addr] = READ_ADD

\* C9: a URef for which has_access_rights_to_uref is true stays authorized
\* across every later call, also across extends with narrower or NONE rights
\* for the same address.
C9_AuthorizationNeverRevoked ==
    [][\A u \in URefs :
         has_access_rights_to_uref(access_rights, u)
           => has_access_rights_to_uref(access_rights', u)]_vars

C9_Witness ==
    /\ pc = "returned"
    /\ last.op = "extend"
    /\ \E i \in 1..Len(urefs) :
         /\ urefs[i].access_rights = NONE
         /\ urefs[i].addr \in DOMAIN prev.access_rights
         /\ has_access_rights_to_uref(prev.access_rights, URef(urefs[i].addr, READ_ADD_WRITE))
         /\ has_access_rights_to_uref(access_rights, URef(urefs[i].addr, READ_ADD_WRITE))

\* C10: extend leaves context_key and the entry (or absence) of every address
\* that none of its URefs names as they were; has_access_rights_to_uref and
\* context_key leave the whole object as it was.
C10_Frame ==
    /\ IsExtend =>
         /\ context_key = prev.context_key
         /\ \A a \in Addrs \ AddrsOf(urefs) :
              /\ a \in DOMAIN access_rights <=> a \in DOMAIN prev.access_rights
              /\ a \in DOMAIN access_rights
                   => access_rights[a] = prev.access_rights[a]
    /\ (pc = "returned" /\ last.op \in {"has_access_rights_to_uref", "context_key"})
         => Self = prev
    /\ (pc = "returned" /\ last.op = "context_key") => last.ret = context_key

C10_Witness ==
    /\ pc = "returned"
    /\ last.op = "extend"
    /\ \E a \in DOMAIN prev.access_rights, b \in AddrsOf(urefs) :
         /\ a \notin AddrsOf(urefs)
         /\ prev.access_rights[a] = READ_WRITE
         /\ access_rights[a] = READ_WRITE
         /\ b \notin DOMAIN prev.access_rights
         /\ access_rights[b] = ADD

----------------------------------------------------------------------------
(* Properties of ContextAccessRights::new (SpecNew)                        *)

\* C5: new gives the same object for every order of its URefs: one entry per
\* address, holding the union of the rights of the URefs with that address.
C5_NewMergesInAnyOrder ==
    (pc = "returned" /\ last.op = "new") =>
        /\ \A p \in Perms(Len(urefs)) : new(context_key, Permute(urefs, p)) = Self
        /\ DOMAIN access_rights = AddrsOf(urefs)
        /\ \A a \in DOMAIN access_rights :
             /\ access_rights[a] \in AccessRightsValues
             /\ FlagsOf(access_rights[a]) = FlagsFor(urefs, a)

C5_Witness ==
    /\ pc = "returned"
    /\ last.op = "new"
    /\ urefs = <<URef("A", ADD), URef("A", NONE), URef("A", READ)>>
    /\ access_rights = [a \in {"A"} |-> READ_ADD]

----------------------------------------------------------------------------
(* Properties of the codec (SpecCodec)                                     *)

\* C7: from_bytes yields a mask only for a non-empty input whose first byte
\* has no bit outside positions 0-2; any other first byte gives the
\* Formatting error, empty input gives another error, and no failure carries
\* a mask.
C7_DecodeRejectsInvalid ==
    pc = "decoded" =>
        /\ decoded.ok <=> (bytes # <<>> /\ bytes[1] \div 8 = 0)
        /\ decoded.ok => decoded = Ok(<<bytes[1], Tail(bytes)>>)
        /\ (bytes # <<>> /\ bytes[1] \div 8 # 0) => decoded = Err("Formatting")
        /\ bytes = <<>> => (~decoded.ok /\ decoded.err # "Formatting")
        /\ ~decoded.ok => DOMAIN decoded = {"ok", "err"}

C7_Witness ==
    /\ pc = "decoded"
    /\ bytes # <<>>
    /\ bytes[1] = 8
    /\ decoded = Err("Formatting")

\* C8: to_bytes gives exactly one byte, the bit value of the mask, different
\* for different masks; from_bytes of that byte followed by any tail gives
\* back the mask and the tail.
C8_CodecRoundTrip ==
    /\ pc \in {"encoded", "roundtrip"} =>
         /\ encoded = Ok(<<rights>>)
         /\ Len(encoded.value) = serialized_length(rights)
         /\ \A m \in AccessRightsValues : to_bytes(m) = encoded => m = rights
    /\ pc = "roundtrip" => decoded = Ok(<<rights, bytes>>)

C8_Witness ==
    /\ pc = "roundtrip"
    /\ rights = READ_ADD_WRITE
    /\ Len(bytes) > 1
    /\ decoded = Ok(<<READ_ADD_WRITE, bytes>>)

====
